---- MODULE Spec2Model ----
(***************************************************************************)
(* Model of the QRIS calculation service (src/qris-service.py): the        *)
(* CRC-16 routine crc16ccitt and the two request handlers generate_qris    *)
(* and validate_qris built around it.                                      *)
(*                                                                         *)
(* A character is its code point (ord), a string is a sequence of code     *)
(* points.  A Python int is unbounded: the CRC accumulator is a sequence   *)
(* of 30-bit digits, a request amount is a sign and a magnitude of         *)
(* base-10000 limbs, most significant first.                               *)
(***************************************************************************)
EXTENDS Integers, Sequences, FiniteSets, TLC

\* ------------------------------------------------------------------ bounds
MaxBaseLen == 2
MaxCrcLen == 2
MaxCandLen == 5
BigLimbs == 24

\* ------------------------------------------------------- program constants
CrcInit == 65535
CrcPoly == 4129
HighBitMask == 32768
CrcMask == 65535
CharShift == 8
BitsPerChar == 8
LenWidth == 2
CrcHexLen == 4
TailLen == 4
Digit0 == 48
UpperA == 65
HttpOk == 200
HttpBadRequest == 400
HttpServerError == 500

\* ------------------------------------------------------- unbounded integers
\* A non-negative Python int of any size, as CPython holds it: a sequence of
\* 30-bit digits, least significant first (<<>> is 0; high zero digits may stay).

\* x ^ y for x, y < 16, at [x + 1][y + 1].
Xor4 ==
    <<
      << 0,  1,  2,  3,  4,  5,  6,  7,  8,  9, 10, 11, 12, 13, 14, 15>>,
      << 1,  0,  3,  2,  5,  4,  7,  6,  9,  8, 11, 10, 13, 12, 15, 14>>,
      << 2,  3,  0,  1,  6,  7,  4,  5, 10, 11,  8,  9, 14, 15, 12, 13>>,
      << 3,  2,  1,  0,  7,  6,  5,  4, 11, 10,  9,  8, 15, 14, 13, 12>>,
      << 4,  5,  6,  7,  0,  1,  2,  3, 12, 13, 14, 15,  8,  9, 10, 11>>,
      << 5,  4,  7,  6,  1,  0,  3,  2, 13, 12, 15, 14,  9,  8, 11, 10>>,
      << 6,  7,  4,  5,  2,  3,  0,  1, 14, 15, 12, 13, 10, 11,  8,  9>>,
      << 7,  6,  5,  4,  3,  2,  1,  0, 15, 14, 13, 12, 11, 10,  9,  8>>,
      << 8,  9, 10, 11, 12, 13, 14, 15,  0,  1,  2,  3,  4,  5,  6,  7>>,
      << 9,  8, 11, 10, 13, 12, 15, 14,  1,  0,  3,  2,  5,  4,  7,  6>>,
      <<10, 11,  8,  9, 14, 15, 12, 13,  2,  3,  0,  1,  6,  7,  4,  5>>,
      <<11, 10,  9,  8, 15, 14, 13, 12,  3,  2,  1,  0,  7,  6,  5,  4>>,
      <<12, 13, 14, 15,  8,  9, 10, 11,  4,  5,  6,  7,  0,  1,  2,  3>>,
      <<13, 12, 15, 14,  9,  8, 11, 10,  5,  4,  7,  6,  1,  0,  3,  2>>,
      <<14, 15, 12, 13, 10, 11,  8,  9,  6,  7,  4,  5,  2,  3,  0,  1>>,
      <<15, 14, 13, 12, 11, 10,  9,  8,  7,  6,  5,  4,  3,  2,  1,  0>>
    >>

\* x & y for x, y < 16, at [x + 1][y + 1].
And4 ==
    <<
      << 0,  0,  0,  0,  0,  0,  0,  0,  0,  0,  0,  0,  0,  0,  0,  0>>,
      << 0,  1,  0,  1,  0,  1,  0,  1,  0,  1,  0,  1,  0,  1,  0,  1>>,
      << 0,  0,  2,  2,  0,  0,  2,  2,  0,  0,  2,  2,  0,  0,  2,  2>>,
      << 0,  1,  2,  3,  0,  1,  2,  3,  0,  1,  2,  3,  0,  1,  2,  3>>,
      << 0,  0,  0,  0,  4,  4,  4,  4,  0,  0,  0,  0,  4,  4,  4,  4>>,
      << 0,  1,  0,  1,  4,  5,  4,  5,  0,  1,  0,  1,  4,  5,  4,  5>>,
      << 0,  0,  2,  2,  4,  4,  6,  6,  0,  0,  2,  2,  4,  4,  6,  6>>,
      << 0,  1,  2,  3,  4,  5,  6,  7,  0,  1,  2,  3,  4,  5,  6,  7>>,
      << 0,  0,  0,  0,  0,  0,  0,  0,  8,  8,  8,  8,  8,  8,  8,  8>>,
      << 0,  1,  0,  1,  0,  1,  0,  1,  8,  9,  8,  9,  8,  9,  8,  9>>,
      << 0,  0,  2,  2,  0,  0,  2,  2,  8,  8, 10, 10,  8,  8, 10, 10>>,
      << 0,  1,  2,  3,  0,  1,  2,  3,  8,  9, 10, 11,  8,  9, 10, 11>>,
      << 0,  0,  0,  0,  4,  4,  4,  4,  8,  8,  8,  8, 12, 12, 12, 12>>,
      << 0,  1,  0,  1,  4,  5,  4,  5,  8,  9,  8,  9, 12, 13, 12, 13>>,
      << 0,  0,  2,  2,  4,  4,  6,  6,  8,  8, 10, 10, 12, 12, 14, 14>>,
      << 0,  1,  2,  3,  4,  5,  6,  7,  8,  9, 10, 11, 12, 13, 14, 15>>
    >>

\* x ^ y and x & y for two digits, four bits at a time from the low end.
RECURSIVE XorDigit(_, _)
XorDigit(x, y) ==
    IF y = 0 THEN x
    ELSE IF x = 0 THEN y
    ELSE Xor4[(x % 16) + 1][(y % 16) + 1] + 16 * XorDigit(x \div 16, y \div 16)

RECURSIVE AndDigit(_, _)
AndDigit(x, y) ==
    IF x = 0 \/ y = 0 THEN 0
    ELSE And4[(x % 16) + 1][(y % 16) + 1] + 16 * AndDigit(x \div 16, y \div 16)

DigitAt(a, i) == IF i <= Len(a) THEN a[i] ELSE 0

\* The int of a machine-size n >= 0.
RECURSIVE BigOf(_)
BigOf(n) == IF n = 0 THEN <<>> ELSE <<n % 1073741824>> \o BigOf(n \div 1073741824)

\* a ^ b
XorBig(a, b) ==
    LET m == IF Len(a) >= Len(b) THEN Len(a) ELSE Len(b)
    IN SubSeq([i \in 1..m |-> XorDigit(DigitAt(a, i), DigitAt(b, i))], 1, m)

\* a << n for n < 30: every digit moves up n bits and takes the top n bits of
\* the digit below it.
ShlBig(a, n) ==
    LET len == Len(a)
        cut == 2 ^ (30 - n)
        m == IF len > 0 /\ a[len] >= cut THEN len + 1 ELSE len
    IN SubSeq([i \in 1..m |->
                  ((DigitAt(a, i) % cut) * (2 ^ n))
                  + (IF i > 1 THEN a[i - 1] \div cut ELSE 0)], 1, m)

\* a & m for a mask m of one digit: a machine-size result.
AndBig(a, m) == AndDigit(DigitAt(a, 1), m)

\* ------------------------------------------------------------- crc16ccitt
\* TRUE; evaluating it evaluates the digits of v before they are used.
Evaluated(v) == Len(v) >= 0

\* The inner loop (lines 21-25): n passes of test, shift and conditional XOR.
RECURSIVE CrcBitLoop(_, _)
CrcBitLoop(crc, n) ==
    IF n = 0 THEN crc
    ELSE LET next == IF AndBig(crc, HighBitMask) # 0
                     THEN XorBig(ShlBig(crc, 1), BigOf(CrcPoly))
                     ELSE ShlBig(crc, 1)
         IN IF Evaluated(next) THEN CrcBitLoop(next, n - 1) ELSE next

\* The outer loop body for one character (lines 20-25).
CrcCharStep(crc, char) ==
    CrcBitLoop(XorBig(crc, ShlBig(BigOf(char), CharShift)), BitsPerChar)

\* The outer loop (lines 19-25) over data[lo..hi], in order; the range is
\* walked in halves, which keeps the evaluation of a long string shallow.
RECURSIVE CrcCharLoop(_, _, _, _)
CrcCharLoop(crc, data, lo, hi) ==
    IF lo > hi THEN crc
    ELSE IF lo = hi THEN CrcCharStep(crc, data[lo])
    ELSE LET mid == (lo + hi) \div 2
             next == CrcCharLoop(crc, data, lo, mid)
         IN IF Evaluated(next) THEN CrcCharLoop(next, data, mid + 1, hi) ELSE next

\* Mutant: the character is XORed in unshifted (crc ^= ord(char)).
crc16ccitt_noShift(data) ==
    LET RECURSIVE Chars(_, _, _)
        Chars(crc, lo, hi) ==
            IF lo > hi THEN crc
            ELSE IF lo = hi
            THEN CrcBitLoop(XorBig(crc, BigOf(data[lo])), BitsPerChar)
            ELSE LET mid == (lo + hi) \div 2
                     next == Chars(crc, lo, mid)
                 IN IF Evaluated(next) THEN Chars(next, mid + 1, hi) ELSE next
    IN AndBig(Chars(BigOf(CrcInit), 1, Len(data)), CrcMask)

\* Mutant: the high bit is tested by magnitude (crc >= 0x8000) instead of by mask.
crc16ccitt_geTest(data) ==
    LET RECURSIVE Bits(_, _)
        Bits(crc, n) ==
            IF n = 0 THEN crc
            ELSE LET next ==
                        IF DigitAt(crc, 1) >= HighBitMask
                           \/ \E i \in 2..Len(crc) : crc[i] # 0
                        THEN XorBig(ShlBig(crc, 1), BigOf(CrcPoly))
                        ELSE ShlBig(crc, 1)
                 IN IF Evaluated(next) THEN Bits(next, n - 1) ELSE next
        RECURSIVE Chars(_, _, _)
        Chars(crc, lo, hi) ==
            IF lo > hi THEN crc
            ELSE IF lo = hi
            THEN Bits(XorBig(crc, ShlBig(BigOf(data[lo]), CharShift)), BitsPerChar)
            ELSE LET mid == (lo + hi) \div 2
                     next == Chars(crc, lo, mid)
                 IN IF Evaluated(next) THEN Chars(next, mid + 1, hi) ELSE next
    IN AndBig(Chars(BigOf(CrcInit), 1, Len(data)), CrcMask)

\* Mutant: characters are reduced to 7 bits before they enter the accumulator.
crc16ccitt_sevenBit(data) ==
    AndBig(CrcCharLoop(BigOf(CrcInit), [i \in 1..Len(data) |-> data[i] % 128],
                       1, Len(data)), CrcMask)

\* crc16ccitt(data): accumulator 0xFFFF, the loop over data, one final & 0xFFFF.
crc16ccitt(data) == AndBig(CrcCharLoop(BigOf(CrcInit), data, 1, Len(data)), CrcMask)

\* ------------------------------------------------------------ characters
Str54 == <<53, 52>>
Str6304 == <<54, 51, 48, 52>>

\* str.upper() of one character, for the code points of Latin-1 (0..255) and
\* the three code points outside it that Latin-1 characters map to or from.
UpperChar(c) ==
    IF c \in 97..122 THEN <<c - 32>>
    ELSE IF c \in (224..254) \ {247} THEN <<c - 32>>
    ELSE IF c = 223 THEN <<83, 83>>
    ELSE IF c = 181 \/ c = 956 THEN <<924>>
    ELSE IF c = 255 THEN <<376>>
    ELSE <<c>>

\* str.upper(): character by character; the result may be longer than s.
RECURSIVE upper(_)
upper(s) == IF s = <<>> THEN <<>> ELSE UpperChar(Head(s)) \o upper(Tail(s))

\* ------------------------------------------------------------ conversions
\* str(n) for a machine-size n >= 0.
RECURSIVE DecStr(_)
DecStr(n) ==
    IF n < 10 THEN <<Digit0 + n>>
    ELSE DecStr(n \div 10) \o <<Digit0 + (n % 10)>>

\* s.zfill(w) for an unsigned s: zeros on the left up to width w, never a cut.
RECURSIVE zfill(_, _)
zfill(s, w) == IF Len(s) >= w THEN s ELSE zfill(<<Digit0>> \o s, w)

HexChar(d) == IF d < 10 THEN Digit0 + d ELSE UpperA + (d - 10)

RECURSIVE HexStr(_)
HexStr(n) ==
    IF n < 16 THEN <<HexChar(n)>>
    ELSE HexStr(n \div 16) \o <<HexChar(n % 16)>>

\* Mutant: lowercase hexadecimal digits (format(n, '04x')).
format04X_lower(n) ==
    LET LowChar(d) == IF d < 10 THEN Digit0 + d ELSE 97 + (d - 10)
        RECURSIVE Low(_)
        Low(m) == IF m < 16 THEN <<LowChar(m)>>
                  ELSE Low(m \div 16) \o <<LowChar(m % 16)>>
    IN zfill(Low(n), CrcHexLen)

\* format(n, '04X')
format04X(n) == zfill(HexStr(n), CrcHexLen)

\* ---------------------------------------------------------- JSON values
\* A parsed JSON value as Python holds it.  t is the Python type; an int is a
\* sign and a magnitude of base-10000 limbs, most significant first (<<>> is
\* 0); a finite float is the sign and magnitude of its integer part and
\* whether its fractional part is non-zero.
JVal(t, b, neg, mag, frac, s) ==
    [t |-> t, b |-> b, neg |-> neg, mag |-> mag, frac |-> frac, s |-> s]

JNone == JVal("NoneType", FALSE, FALSE, <<>>, FALSE, <<>>)
JBool(b) == JVal("bool", b, FALSE, <<>>, FALSE, <<>>)
JInt(neg, mag) == JVal("int", FALSE, neg, mag, FALSE, <<>>)
JFloat(neg, mag, frac) == JVal("float", FALSE, neg, mag, frac, <<>>)
JNaN == JVal("nan", FALSE, FALSE, <<>>, FALSE, <<>>)
JInf(neg) == JVal("inf", FALSE, neg, <<>>, FALSE, <<>>)
JStr(s) == JVal("str", FALSE, FALSE, <<>>, FALSE, s)
JList(s) == JVal("list", FALSE, FALSE, <<>>, FALSE, s)

\* bool(v): Python truthiness.
Truthy(v) ==
    CASE v.t = "NoneType" -> FALSE
      [] v.t = "bool" -> v.b
      [] v.t = "int" -> v.mag # <<>>
      [] v.t = "float" -> v.mag # <<>> \/ v.frac
      [] v.t = "nan" -> TRUE
      [] v.t = "inf" -> TRUE
      [] v.t = "str" -> v.s # <<>>
      [] v.t = "list" -> v.s # <<>>

\* isinstance(v, (int, float)): bool is a subclass of int, nan and inf are floats.
IsIntOrFloat(v) == v.t \in {"bool", "int", "float", "nan", "inf"}

\* v < 1 for a v that is an int or a float.
LessThanOne(v) ==
    CASE v.t = "bool" -> ~v.b
      [] v.t = "int" -> v.neg \/ v.mag = <<>>
      [] v.t = "float" -> v.mag = <<>> \/ v.neg
      [] v.t = "nan" -> FALSE
      [] v.t = "inf" -> v.neg

\* int(v) raises for nan (ValueError) and for inf (OverflowError).
IntRaises(v) == v.t \in {"nan", "inf"}

\* Mutant: int() rounds away from zero instead of truncating.
int_roundUp(v) ==
    CASE v.t = "bool" -> JInt(FALSE, IF v.b THEN <<1>> ELSE <<>>)
      [] v.t = "int" -> v
      [] v.t = "float" ->
            IF v.frac
            THEN JInt(v.neg, IF v.mag = <<>> THEN <<1>>
                             ELSE [v.mag EXCEPT ![Len(v.mag)] = @ + 1])
            ELSE JInt(v.neg, v.mag)

\* int(v) for a v it does not raise for: truncation toward zero.
int(v) ==
    CASE v.t = "bool" -> JInt(FALSE, IF v.b THEN <<1>> ELSE <<>>)
      [] v.t = "int" -> v
      [] v.t = "float" -> JInt(v.neg /\ v.mag # <<>>, v.mag)

\* The decimal digits of the limbs after the first: four digits each.
RECURSIVE LimbsStr(_)
LimbsStr(mag) ==
    IF mag = <<>> THEN <<>> ELSE zfill(DecStr(Head(mag)), 4) \o LimbsStr(Tail(mag))

\* str(v) for an int v.
str(v) ==
    IF v.mag = <<>> THEN <<Digit0>>
    ELSE (IF v.neg THEN <<45>> ELSE <<>>) \o DecStr(Head(v.mag)) \o LimbsStr(Tail(v.mag))

\* A parsed request body: None, a list of n items, or a dict.  A dict holds a
\* value or JAbsent under each of the keys the handlers read.
JAbsent == JVal("absent", FALSE, FALSE, <<>>, FALSE, <<>>)

Body(t, n, base_string, amount, qris_string) ==
    [t |-> t, n |-> n, base_string |-> base_string, amount |-> amount,
     qris_string |-> qris_string]

BodyNone == Body("NoneType", 0, JAbsent, JAbsent, JAbsent)
BodyList(n) == Body("list", n, JAbsent, JAbsent, JAbsent)
BodyDict(base_string, amount, qris_string) ==
    Body("dict", 0, base_string, amount, qris_string)

\* `not data` is false exactly for these.
BodyTruthy(data) ==
    CASE data.t = "NoneType" -> FALSE
      [] data.t = "list" -> data.n > 0
      [] data.t = "dict" ->
            \E k \in {"base_string", "amount", "qris_string"} : data[k] # JAbsent

\* data.get(key): only a dict has it (AttributeError otherwise).
HasGet(data) == data.t = "dict"
get(data, key) == IF data[key] = JAbsent THEN JNone ELSE data[key]

\* --------------------------------------------------------------- handlers
\* What a handler did: its response, and its call of crc16ccitt if it made one.
NoCall == [called |-> FALSE, data |-> <<>>, ret |-> 0]
Outcome(response, call) == [response |-> response, call |-> call]

ErrorReply(status, error) == [status |-> status, error |-> error]

\* health_check
health_check == Outcome([status |-> HttpOk, service |-> "qris-calculator"], NoCall)

\* generate_qris, on the parsed body `data`.
generate_qris(data) ==
    IF ~BodyTruthy(data)
    THEN Outcome(ErrorReply(HttpBadRequest, "No data provided"), NoCall)
    ELSE IF ~HasGet(data)
    THEN Outcome(ErrorReply(HttpServerError, "AttributeError"), NoCall)
    ELSE
    LET base_string == get(data, "base_string")
        amount == get(data, "amount")
    IN  IF ~Truthy(base_string)
        THEN Outcome(ErrorReply(HttpBadRequest, "base_string is required"), NoCall)
        ELSE IF ~Truthy(amount) \/ ~IsIntOrFloat(amount) \/ LessThanOne(amount)
        THEN Outcome(ErrorReply(HttpBadRequest, "Invalid amount"), NoCall)
        ELSE IF IntRaises(amount)
        THEN Outcome(ErrorReply(HttpServerError,
                                IF amount.t = "nan" THEN "ValueError"
                                ELSE "OverflowError"), NoCall)
        ELSE
        LET amount_int == int(amount)
            amount_str == str(amount_int)
            amount_length == zfill(DecStr(Len(amount_str)), LenWidth)
            amount_tag == Str54 \o amount_length \o amount_str
            string_for_crc == base_string.s \o amount_tag \o Str6304
            calculated_crc == crc16ccitt(string_for_crc)
            crc_hex == format04X(calculated_crc)
            final_qris_string == string_for_crc \o crc_hex
        IN  Outcome([status |-> HttpOk,
                     qris_string |-> final_qris_string,
                     amount |-> amount_int,
                     crc |-> crc_hex,
                     success |-> TRUE],
                    [called |-> TRUE, data |-> string_for_crc,
                     ret |-> calculated_crc])

\* Mutant: the tail is compared as given, without upper().
is_valid_exact(provided_crc, calculated_crc_hex) == provided_crc = calculated_crc_hex

\* provided_crc.upper() == calculated_crc_hex
is_valid(provided_crc, calculated_crc_hex) == upper(provided_crc) = calculated_crc_hex

\* validate_qris, on the parsed body `data`.
validate_qris(data) ==
    IF ~HasGet(data)
    THEN Outcome(ErrorReply(HttpServerError, "AttributeError"), NoCall)
    ELSE
    LET qris_string == get(data, "qris_string")
    IN  IF ~Truthy(qris_string)
        THEN Outcome(ErrorReply(HttpBadRequest, "Invalid QRIS string"), NoCall)
        ELSE IF qris_string.t # "str"
        THEN Outcome(ErrorReply(HttpServerError, "TypeError"), NoCall)
        ELSE IF Len(qris_string.s) < TailLen
        THEN Outcome(ErrorReply(HttpBadRequest, "Invalid QRIS string"), NoCall)
        ELSE
        LET n == Len(qris_string.s)
            provided_crc == SubSeq(qris_string.s, n - TailLen + 1, n)
            qris_without_crc == SubSeq(qris_string.s, 1, n - TailLen)
            calculated_crc == crc16ccitt(qris_without_crc)
            calculated_crc_hex == format04X(calculated_crc)
        IN  Outcome([status |-> HttpOk,
                     valid |-> is_valid(provided_crc, calculated_crc_hex),
                     provided_crc |-> provided_crc,
                     calculated_crc |-> calculated_crc_hex],
                    [called |-> TRUE, data |-> qris_without_crc,
                     ret |-> calculated_crc])

\* ----------------------------------------------------------------- inputs
RECURSIVE StringsUpTo(_, _)
StringsUpTo(chars, n) ==
    IF n = 0 THEN {<<>>}
    ELSE LET shorter == StringsUpTo(chars, n - 1)
         IN shorter \cup {Append(s, c) : s \in shorter, c \in chars}

\* base_string: '0' and 'A'.
BaseChars == {48, 65}
BaseValues == {JAbsent, JNone} \cup {JStr(s) : s \in StringsUpTo(BaseChars, MaxBaseLen)}

\* amount: absent, null, booleans, integers, floats, nan, infinities, strings, a list.
AmountValues ==
    {JAbsent, JNone, JBool(FALSE), JBool(TRUE),
     JInt(FALSE, <<>>), JInt(FALSE, <<1>>), JInt(FALSE, <<12>>),
     JInt(FALSE, <<5000>>), JInt(FALSE, <<1, 20, 300>>), JInt(TRUE, <<5>>),
     JFloat(FALSE, <<>>, TRUE), JFloat(FALSE, <<1>>, TRUE), JFloat(FALSE, <<5000>>, FALSE),
     JFloat(TRUE, <<2>>, TRUE), JFloat(FALSE, <<>>, FALSE),
     JNaN, JInf(FALSE), JInf(TRUE),
     JStr(<<>>), JStr(<<49, 50>>), JList(<<>>)}

GenBodies ==
    {BodyNone, BodyList(0), BodyList(1)}
    \cup {BodyDict(b, a, JAbsent) : b \in BaseValues, a \in AmountValues}

\* qris_string: 'F', 'f' and the sharp s, whose upper() is two characters.
CandChars == {70, 102, 223}
CandValues ==
    {JAbsent, JNone, JInt(FALSE, <<>>), JInt(FALSE, <<5>>)}
    \cup {JStr(s) : s \in StringsUpTo(CandChars, MaxCandLen)}

ValBodies ==
    {BodyNone, BodyList(0), BodyList(1)}
    \cup {BodyDict(JAbsent, JAbsent, q) : q \in CandValues}

\* The characters a tampered payload gets in place of one of its own.
TamperChars == {0, 49, 66, 102, 176, 255}

\* Arguments of crc16ccitt: every one-character string of Latin-1, and the
\* strings over a few single-byte and wider code points.
CrcChars == {0, 49, 65, 255, 321, 8364, 128512, 1114111}
CrcInputs == {<<c>> : c \in 0..255} \cup StringsUpTo(CrcChars, MaxCrcLen)

\* ------------------------------------------------------------------ state
VARIABLES
    op,        \* the operation that ran last
    origin,    \* where its request came from
    request,   \* the parsed body it was given
    response,  \* what it answered
    call,      \* its call of crc16ccitt, if any
    prior      \* for a request derived from an earlier response: that response

vars == <<op, origin, request, response, call, prior>>

NoResponse == [status |-> 0]
NoPrior == [crc |-> <<>>, valid |-> FALSE]

Init ==
    /\ op = "init"
    /\ origin = "none"
    /\ request = BodyNone
    /\ response = NoResponse
    /\ call = NoCall
    /\ prior = NoPrior

Handled(name, from, data, outcome, before) ==
    /\ op' = name
    /\ origin' = from
    /\ request' = data
    /\ response' = outcome.response
    /\ call' = outcome.call
    /\ prior' = before

\* Nothing is kept between requests: a client starts an exchange with any
\* request (Idle), may follow a response with a request derived from it, and
\* ends the exchange (Close).
Idle == op = "init"

\* GET /health
HealthCheck ==
    /\ Idle
    /\ Handled("health_check", "client", BodyNone, health_check, NoPrior)

\* POST /generate-qris with any body.
GenerateQris ==
    /\ Idle
    /\ \E data \in GenBodies :
         Handled("generate_qris", "client", data, generate_qris(data), NoPrior)

\* POST /validate-qris with any body.
ValidateQris ==
    /\ Idle
    /\ \E data \in ValBodies :
         Handled("validate_qris", "client", data, validate_qris(data), NoPrior)

Generated == op = "generate_qris" /\ response.status = HttpOk

\* POST /validate-qris with the qris_string that generate_qris just returned.
ValidateGenerated ==
    /\ Generated
    /\ LET data == BodyDict(JAbsent, JAbsent, JStr(response.qris_string))
       IN Handled("validate_qris", "generated", data, validate_qris(data),
                  [crc |-> response.crc, valid |-> TRUE])

\* The same, with one character before the checksum tail replaced by another.
ValidateTampered ==
    /\ Generated
    /\ \E i \in 1..(Len(response.qris_string) - TailLen) :
         \E c \in TamperChars \ {response.qris_string[i]} :
            LET data == BodyDict(JAbsent, JAbsent,
                                 JStr([response.qris_string EXCEPT ![i] = c]))
            IN Handled("validate_qris", "tampered", data, validate_qris(data),
                       [crc |-> response.crc, valid |-> TRUE])

\* str.lower() of one character, for the same code points as UpperChar.
LowerChar(c) ==
    IF c \in 65..90 THEN <<c + 32>>
    ELSE IF c \in (192..222) \ {215} THEN <<c + 32>>
    ELSE IF c = 924 THEN <<956>>
    ELSE IF c = 376 THEN <<255>>
    ELSE <<c>>

\* The character in its other case, where it has one and that is one character.
SwapCase(c) ==
    LET r == IF UpperChar(c) # <<c>> THEN UpperChar(c) ELSE LowerChar(c)
    IN IF Len(r) = 1 THEN r[1] ELSE c

\* POST /validate-qris with the candidate just validated, the case of some of
\* its last four characters changed.
ValidateRecased ==
    /\ op = "validate_qris"
    /\ origin \in {"client", "generated"}
    /\ response.status = HttpOk
    /\ \E swapped \in SUBSET (1..TailLen) :
         LET s == request.qris_string.s
             n == Len(s)
             t == [i \in 1..n |->
                      IF i - (n - TailLen) \in swapped THEN SwapCase(s[i]) ELSE s[i]]
             data == BodyDict(JAbsent, JAbsent, JStr(t))
         IN /\ t # s
            /\ Handled("validate_qris", "recased", data, validate_qris(data),
                       [crc |-> response.calculated_crc, valid |-> response.valid])

\* A direct call of crc16ccitt.
Crc16 ==
    /\ Idle
    /\ \E data \in CrcInputs :
         Handled("crc16ccitt", "client", BodyNone,
                 Outcome(NoResponse, [called |-> TRUE, data |-> data,
                                      ret |-> crc16ccitt(data)]),
                 NoPrior)

\* The exchange ends.
Close ==
    /\ ~Idle
    /\ Handled("init", "none", BodyNone, Outcome(NoResponse, NoCall), NoPrior)

Next ==
    \/ HealthCheck
    \/ GenerateQris
    \/ ValidateQris
    \/ ValidateGenerated
    \/ ValidateTampered
    \/ ValidateRecased
    \/ Crc16
    \/ Close

Spec == Init /\ [][Next]_vars

\* ---------------------------------------------------------- large amounts
\* Integers of 97 to 104 decimal digits: a first limb and BigLimbs or
\* BigLimbs + 1 limbs of four digits after it.
BigAmounts ==
    {JInt(FALSE, <<d>> \o [i \in 1..k |-> l]) :
        d \in {1, 12, 999, 1000, 9999}, k \in {BigLimbs, BigLimbs + 1}, l \in {0, 9999}}

BigBodies ==
    {BodyDict(JStr(s), a, JAbsent) :
        s \in StringsUpTo(BaseChars, MaxBaseLen) \ {<<>>}, a \in BigAmounts}

\* POST /generate-qris with a large amount.
GenerateQrisBig ==
    /\ Idle
    /\ \E data \in BigBodies :
         Handled("generate_qris", "client", data, generate_qris(data), NoPrior)

NextBig ==
    \/ GenerateQrisBig
    \/ Close

SpecBig == Init /\ [][NextBig]_vars

\* ================================================================ claims
ByClient(name) == op = name /\ origin = "client"

\* The number of decimal digits of a non-zero integer of limbs mag.
DigitCount(mag) ==
    (IF Head(mag) < 10 THEN 1 ELSE IF Head(mag) < 100 THEN 2
     ELSE IF Head(mag) < 1000 THEN 3 ELSE 4) + 4 * (Len(mag) - 1)

IsByteString(s) == \A i \in 1..Len(s) : s[i] \in 0..255
IsUpperHex(s) == \A i \in 1..Len(s) : s[i] \in (48..57) \cup (65..70)

\* The reference CRC-16/CCITT-FALSE: a 16-bit register, reduced modulo 2^16
\* after every shift.
RECURSIVE RefBits(_, _)
RefBits(reg, n) ==
    IF n = 0 THEN reg
    ELSE IF reg >= 32768
         THEN RefBits(XorDigit((2 * reg) % 65536, 4129), n - 1)
         ELSE RefBits((2 * reg) % 65536, n - 1)

RECURSIVE RefCrc(_, _)
RefCrc(data, n) ==
    IF n = 0 THEN 65535
    ELSE RefBits(XorDigit(RefCrc(data, n - 1), 256 * data[n]), 8)

\* C1: validate_qris on the qris_string generate_qris returned answers valid,
\* and its calculated_crc is the crc generate_qris returned.
C1_RoundTrip ==
    (op = "validate_qris" /\ origin = "generated") =>
        /\ response.status = HttpOk
        /\ response.valid
        /\ response.calculated_crc = prior.crc

\* A generated payload whose checksum has a letter among its digits was validated.
C1_Witness ==
    /\ op = "validate_qris" /\ origin = "generated"
    /\ \E i \in 1..Len(prior.crc) : prior.crc[i] >= 65

\* C2: on strings of code points 0..255 crc16ccitt, which masks once at the
\* end, returns what the reference that masks after every shift returns; the
\* empty string gives 0xFFFF.
C2_MatchesReference ==
    (call.called /\ IsByteString(call.data)) =>
        /\ call.ret = RefCrc(call.data, Len(call.data))
        /\ call.data = <<>> => call.ret = 65535

\* crc16ccitt ran over ten or more single-byte characters: its accumulator
\* grew far beyond 16 bits.
C2_Witness ==
    /\ call.called /\ IsByteString(call.data)
    /\ Len(call.data) >= 10
    /\ call.ret = RefCrc(call.data, Len(call.data))

\* C10: crc16ccitt(s) is crc16ccitt of s with every code point reduced modulo 256.
C10_LowEightBits ==
    op = "crc16ccitt" =>
        call.ret = crc16ccitt([i \in 1..Len(call.data) |-> call.data[i] % 256])

\* crc16ccitt ran over a string with a code point above 255.
C10_Witness ==
    /\ op = "crc16ccitt"
    /\ Len(call.data) = 2
    /\ \E i \in 1..Len(call.data) : call.data[i] > 255
    /\ call.ret = crc16ccitt([i \in 1..Len(call.data) |-> call.data[i] % 256])

\* C4: a generated payload with one character of its body replaced by another
\* single-byte character is reported not valid.
C4_TamperDetected ==
    origin = "tampered" =>
        /\ response.status = HttpOk
        /\ ~response.valid

\* A payload with a character replaced by code point 255 was validated.
C4_Witness ==
    /\ origin = "tampered"
    /\ response.status = HttpOk
    /\ \E i \in 1..(Len(request.qris_string.s) - TailLen) :
          request.qris_string.s[i] = 255

\* C5: changing the case of any of the last four characters of a candidate
\* changes neither valid nor calculated_crc.
C5_CaseInsensitive ==
    origin = "recased" =>
        /\ response.status = HttpOk
        /\ response.valid = prior.valid
        /\ response.calculated_crc = prior.crc

\* A correct checksum tail given with a lowercase letter was accepted.
C5_Witness ==
    /\ origin = "recased"
    /\ response.status = HttpOk
    /\ response.valid
    /\ Len(request.qris_string.s) > TailLen
    /\ \E i \in 1..TailLen : response.provided_crc[i] \in 97..102

\* C7 as claimed: assembly only ever runs with an integer-valued amount >= 1,
\* and a number >= 1 that is not integer-valued is rejected with a client error.
IntegerValued(v) == v.t \in {"int", "bool"} \/ (v.t = "float" /\ ~v.frac)

C7_IntegerValuedOnly ==
    ByClient("generate_qris") =>
        /\ call.called => IntegerValued(request.amount)
        /\ (request.amount.t = "float" /\ request.amount.frac
            /\ request.amount.mag # <<>> /\ ~request.amount.neg
            /\ Truthy(get(request, "base_string")))
           => (response.status = HttpBadRequest /\ ~call.called)

\* C7 as amended: assembly runs with int(amount), the amount truncated toward
\* zero, which is an integer >= 1 and is echoed in the response; a number >= 1
\* that is not integer-valued is accepted and assembled for its integer part.
C7_TruncatedAmount ==
    (ByClient("generate_qris") /\ call.called) =>
        LET a == request.amount
            used == response.amount
        IN /\ a.t \in {"bool", "int", "float"}
           /\ response.status = HttpOk
           /\ used.t = "int" /\ ~used.neg /\ used.mag # <<>>
           /\ used.mag = (IF a.t = "bool" THEN <<1>> ELSE a.mag)
           /\ call.data = get(request, "base_string").s \o Str54
                           \o zfill(DecStr(DigitCount(used.mag)), LenWidth)
                           \o str(used) \o Str6304

\* An amount with a fractional part was assembled.
C7_Witness ==
    /\ ByClient("generate_qris") /\ call.called
    /\ request.amount.t = "float" /\ request.amount.frac
    /\ response.amount = JInt(FALSE, <<1>>)

\* C6: amount 1 succeeds; an absent, non-numeric, zero or negative amount gets
\* a client error, decided before crc16ccitt runs, with no qris_string or crc.
InvalidAmount(v) ==
    \/ v.t \in {"absent", "NoneType"}
    \/ v.t \in {"bool", "str", "list"}
    \/ v.t = "int" /\ (v.mag = <<>> \/ v.neg)
    \/ v.t = "float" /\ ((v.mag = <<>> /\ ~v.frac) \/ v.neg)
    \/ v.t = "inf" /\ v.neg

C6_AmountBoundary ==
    (ByClient("generate_qris") /\ Truthy(get(request, "base_string"))) =>
        /\ request.amount = JInt(FALSE, <<1>>) => response.status = HttpOk
        /\ InvalidAmount(request.amount) =>
              /\ response.status = HttpBadRequest
              /\ ~call.called
              /\ "qris_string" \notin DOMAIN response
              /\ "crc" \notin DOMAIN response

\* C9: an absent or empty body, an absent or empty required field, or a
\* qris_string shorter than four characters gets a 400, never a 500.
EmptyField(v) == v.t \in {"absent", "NoneType"} \/ (v.t = "str" /\ v.s = <<>>)

Malformed ==
    \/ ~BodyTruthy(request)
    \/ request.t = "dict" /\ op = "generate_qris" /\ EmptyField(request.base_string)
    \/ request.t = "dict" /\ op = "validate_qris"
       /\ \/ EmptyField(request.qris_string)
          \/ request.qris_string.t = "str" /\ Len(request.qris_string.s) < 4

C9_ClientError ==
    ((ByClient("generate_qris") \/ ByClient("validate_qris")) /\ Malformed) =>
        response.status = HttpBadRequest

\* C8: an amount of more than 99 decimal digits is rejected, and the length
\* part of the amount field of every returned payload is exactly two digits.
LengthPart ==
    SubSeq(response.qris_string,
           Len(request.base_string.s) + 3,
           Len(response.qris_string) - 8 - DigitCount(response.amount.mag))

C8_OversizedRejected ==
    ByClient("generate_qris") =>
        /\ (request.amount.t = "int" /\ request.amount.mag # <<>>
            /\ DigitCount(request.amount.mag) > 99)
           => response.status = HttpBadRequest
        /\ response.status = HttpOk =>
              (Len(LengthPart) = 2 /\ \A i \in 1..Len(LengthPart) : LengthPart[i] \in 48..57)

\* C3: the returned qris_string is base_string, "54", the two-digit length of
\* the decimal amount, the decimal amount, "6304" and crc; crc is four
\* uppercase hexadecimal characters, the checksum of all that precedes it.
TwoDigits(n) == <<48 + ((n \div 10) % 10), 48 + (n % 10)>>

C3_PayloadFormat ==
    (ByClient("generate_qris") /\ response.status = HttpOk) =>
        LET q == response.qris_string
            body == SubSeq(q, 1, Len(q) - 4)
        IN /\ q = request.base_string.s \o Str54
                   \o TwoDigits(DigitCount(response.amount.mag))
                   \o str(response.amount) \o Str6304 \o response.crc
           /\ Len(response.crc) = 4
           /\ IsUpperHex(response.crc)
           /\ response.crc = format04X(crc16ccitt(body))
====
